---- MODULE Spec2Model ----
(***************************************************************************)
(* Model of assets/sidebar.js: the clientside callback toggle_nav_text,    *)
(* which hides or restores the nav-text labels of a collapsible sidebar    *)
(* and hides the request-review submenu when the sidebar is collapsed.     *)
(*                                                                         *)
(* The document is a sequence of elements in document order; each element  *)
(* carries its class list and the value of its inline style.display.       *)
(* JavaScript values are tagged with their type so that === is modelled    *)
(* as it behaves (no coercion between the string "60" and the number 60).  *)
(***************************************************************************)
EXTENDS Integers, Sequences, FiniteSets

VARIABLES dom, prevDom, initialDom, sidebar_style, ret, threw, called,
          lastStyle, everCollapsed

vars == <<dom, prevDom, initialDom, sidebar_style, ret, threw, called,
          lastStyle, everCollapsed>>

(* ---------------------------- bounds ----------------------------------- *)

\* Largest number of elements in the modelled document.
MaxElems == 2

(* ------------------------ JavaScript values ---------------------------- *)

Str(x) == [t |-> "string", s |-> x, n |-> 0]
Num(k) == [t |-> "number", s |-> "", n |-> k]
Undef == [t |-> "undefined", s |-> "", n |-> 0]

\* Values the width and minWidth properties are drawn from: the collapse
\* literal, near misses of it, an ordinary expanded width and a missing field.
FieldValues == {Undef, Str("60px"), Str("59px"), Str("60"), Num(60), Str("240px")}

NullStyle == [kind |-> "null", width |-> Undef, minWidth |-> Undef]
UndefinedStyle == [kind |-> "undefined", width |-> Undef, minWidth |-> Undef]
ObjectStyles == [kind : {"object"}, width : FieldValues, minWidth : FieldValues]

\* Everything the host framework passes as sidebar_style: the style prop is
\* an object, or null / undefined when the prop is not set.
Styles == {NullStyle, UndefinedStyle} \cup ObjectStyles

\* No style yet (value of lastStyle before the first non-absent invocation).
NoStyle == [kind |-> "nostyle", width |-> Undef, minWidth |-> Undef]

(* ----------------------------- the DOM --------------------------------- *)

NavTextClass == "nav-text"
SubmenuClass == "request-review-submenu"

\* Class lists of the elements of the page: a nav label, a submenu, or an
\* element that matches neither selector.  Labels and submenus are distinct
\* elements.
ClassLists == {{}, {NavTextClass}, {SubmenuClass}}

\* Inline display values an element can hold before the callback runs.
Displays == {"", "none", "block"}

Elements == [classList : ClassLists, display : Displays]

Documents == UNION {[1..n -> Elements] : n \in 0..MaxElems}

\* The value of window.dash_clientside.no_update.
no_update == "no_update"

\* The value of ret before any invocation has returned, or after a throw.
NoReturn == "no_return"

(* --------------------------- the callback ------------------------------ *)

ToBooleanNullOnly(v) == v.kind # "null"

\* ToBoolean of the argument, as used by !sidebar_style.
ToBoolean(v) == v.kind \notin {"null", "undefined"}

\* a === b: same type and same value, no coercion.
StrictEq(a, b) ==
    /\ a.t = b.t
    /\ CASE a.t = "string" -> a.s = b.s
         [] a.t = "number" -> a.n = b.n
         [] OTHER -> TRUE

\* parseInt of a field value (-1 stands for NaN).
ParseInt(v) ==
    CASE v = Str("60px") -> 60
      [] v = Str("60") -> 60
      [] v = Str("59px") -> 59
      [] v = Str("240px") -> 240
      [] v.t = "number" -> v.n
      [] OTHER -> -1

isCollapsedWidthOnly(s) == StrictEq(s.width, Str("60px"))

isCollapsedNumeric(s) == ParseInt(s.width) = 60 \/ ParseInt(s.minWidth) = 60

\* const isCollapsed = sidebar_style.width === '60px' ||
\*                     sidebar_style.minWidth === '60px';
isCollapsedOf(s) ==
    StrictEq(s.width, Str("60px")) \/ StrictEq(s.minWidth, Str("60px"))

\* The indices 1..n in increasing order.
RECURSIVE Indices(_)
Indices(n) == IF n = 0 THEN <<>> ELSE Append(Indices(n - 1), n)

\* document.querySelectorAll('.' + cls): every match, in document order.
querySelectorAll(d, cls) ==
    LET Matches(i) == cls \in d[i].classList
    IN  SelectSeq(Indices(Len(d)), Matches)

querySelectorLast(d, cls) ==
    LET all == querySelectorAll(d, cls)
    IN  IF Len(all) = 0 THEN 0 ELSE all[Len(all)]

\* document.querySelector('.' + cls): the first match, or null (0).
querySelector(d, cls) ==
    LET all == querySelectorAll(d, cls)
    IN  IF Len(all) = 0 THEN 0 ELSE Head(all)

navDisplayBlock(isCollapsed) == IF isCollapsed THEN "none" ELSE "block"

\* isCollapsed ? 'none' : ''
navDisplay(isCollapsed) == IF isCollapsed THEN "none" ELSE ""

\* navTexts.forEach(text => { text.style.display = ... })
RECURSIVE forEachNavText(_, _, _)
forEachNavText(d, navTexts, isCollapsed) ==
    IF navTexts = <<>> THEN d
    ELSE forEachNavText([d EXCEPT ![Head(navTexts)].display = navDisplay(isCollapsed)],
                        Tail(navTexts), isCollapsed)

hideSubmenuSymmetric(d, submenu, isCollapsed) ==
    IF submenu # 0
    THEN [dom |-> [d EXCEPT ![submenu].display = IF isCollapsed THEN "none" ELSE ""],
          threw |-> FALSE]
    ELSE [dom |-> d, threw |-> FALSE]

hideSubmenuUnguarded(d, submenu, isCollapsed) ==
    IF isCollapsed
    THEN IF submenu = 0
         THEN [dom |-> d, threw |-> TRUE]
         ELSE [dom |-> [d EXCEPT ![submenu].display = "none"], threw |-> FALSE]
    ELSE [dom |-> d, threw |-> FALSE]

hideSubmenuInverted(d, submenu, isCollapsed) ==
    IF submenu # 0 /\ ~isCollapsed
    THEN [dom |-> [d EXCEPT ![submenu].display = "none"], threw |-> FALSE]
    ELSE [dom |-> d, threw |-> FALSE]

hideSubmenuToggling(d, submenu, isCollapsed) ==
    IF submenu # 0 /\ isCollapsed
    THEN [dom |-> [d EXCEPT ![submenu].display =
                        IF d[submenu].display = "none" THEN "" ELSE "none"],
          threw |-> FALSE]
    ELSE [dom |-> d, threw |-> FALSE]

\* if (submenu && isCollapsed) { submenu.style.display = 'none'; }
\* Writing through a null submenu would throw a TypeError.
hideSubmenu(d, submenu, isCollapsed) ==
    IF submenu # 0 /\ isCollapsed
    THEN [dom |-> [d EXCEPT ![submenu].display = "none"], threw |-> FALSE]
    ELSE [dom |-> d, threw |-> FALSE]

mainPathNoReturn(d, s) ==
    LET isCollapsed == isCollapsedOf(s)
        navTexts == querySelectorAll(d, NavTextClass)
        submenu == querySelector(d, SubmenuClass)
        d1 == forEachNavText(d, navTexts, isCollapsed)
        r == hideSubmenu(d1, submenu, isCollapsed)
    IN  [dom |-> r.dom, ret |-> NoReturn, threw |-> r.threw]

\* The body of toggle_nav_text after the guard.  Reading a property of null
\* or undefined throws a TypeError before anything is written.
mainPath(d, s) ==
    IF s.kind \in {"null", "undefined"}
    THEN [dom |-> d, ret |-> NoReturn, threw |-> TRUE]
    ELSE LET isCollapsed == isCollapsedOf(s)
             navTexts == querySelectorAll(d, NavTextClass)
             submenu == querySelector(d, SubmenuClass)
             d1 == forEachNavText(d, navTexts, isCollapsed)
             r == hideSubmenu(d1, submenu, isCollapsed)
         IN  [dom |-> r.dom,
              ret |-> IF r.threw THEN NoReturn ELSE no_update,
              threw |-> r.threw]

\* toggle_nav_text: function(sidebar_style) { ... } on the document d.
toggle_nav_text(d, s) ==
    IF ~ToBoolean(s)
    THEN [dom |-> d, ret |-> no_update, threw |-> FALSE]
    ELSE mainPath(d, s)

(* ------------------ vocabulary of the properties ----------------------- *)

\* The argument is null or undefined.
AbsentStyle(s) == s.kind \in {"null", "undefined"}

\* A style object whose width or minWidth is exactly the string "60px".
CollapsedStyle(s) ==
    /\ s.kind = "object"
    /\ (s.width = Str("60px") \/ s.minWidth = Str("60px"))

\* A style object that is not collapsed.
ExpandedStyle(s) == s.kind = "object" /\ ~CollapsedStyle(s)

NavTextIndices(d) == {i \in 1..Len(d) : NavTextClass \in d[i].classList}

SubmenuIndices(d) == {i \in 1..Len(d) : SubmenuClass \in d[i].classList}

\* The first element matching the submenu selector; 0 when there is none.
FirstSubmenu(d) ==
    IF SubmenuIndices(d) = {} THEN 0
    ELSE CHOOSE i \in SubmenuIndices(d) : \A j \in SubmenuIndices(d) : i <= j

(* --------------------------- the system -------------------------------- *)

Init ==
    /\ dom \in Documents
    /\ prevDom = dom
    /\ initialDom = dom
    /\ sidebar_style = NullStyle
    /\ ret = NoReturn
    /\ threw = FALSE
    /\ called = FALSE
    /\ lastStyle = NoStyle
    /\ everCollapsed = FALSE

\* The host framework invokes the callback with the current style value; the
\* invocation runs to completion.
Invoke ==
    \E s \in Styles :
        LET r == toggle_nav_text(dom, s)
        IN  /\ dom' = r.dom
            /\ prevDom' = dom
            /\ sidebar_style' = s
            /\ ret' = r.ret
            /\ threw' = r.threw
            /\ called' = TRUE
            /\ lastStyle' = IF AbsentStyle(s) THEN lastStyle ELSE s
            /\ everCollapsed' = (everCollapsed \/ CollapsedStyle(s))
            /\ UNCHANGED initialDom

Next == Invoke

Spec == Init /\ [][Next]_vars

TypeOK ==
    /\ dom \in Documents
    /\ prevDom \in Documents
    /\ initialDom \in Documents
    /\ sidebar_style \in Styles
    /\ ret \in {no_update, NoReturn}
    /\ threw \in BOOLEAN
    /\ called \in BOOLEAN
    /\ lastStyle \in ObjectStyles \cup {NoStyle}
    /\ everCollapsed \in BOOLEAN

(* ---------------------------- properties ------------------------------- *)

\* Every nav-text element of d has display v.
AllNavTexts(d, v) == \A i \in NavTextIndices(d) : d[i].display = v

\* The elements of d and e are the same elements (same number, same class
\* lists): at most display values differ.
SameElements(d, e) ==
    /\ Len(d) = Len(e)
    /\ \A i \in 1..Len(d) : d[i].classList = e[i].classList

\* C1: an invocation with an absent style (null or undefined) leaves the
\* display of every element as it was and returns the no-update sentinel.
C1_AbsentNoMutation ==
    (called /\ AbsentStyle(sidebar_style)) =>
        (dom = prevDom /\ ret = no_update /\ ~threw)

\* An absent-style invocation has run on a document holding a hidden nav
\* label next to a visible element, and both are as before.
C1_Witness ==
    /\ called
    /\ AbsentStyle(sidebar_style)
    /\ sidebar_style.kind = "undefined"
    /\ \E i \in NavTextIndices(dom) : dom[i].display = "none"
    /\ \E i \in 1..Len(dom) : dom[i].display = "block"
    /\ dom = prevDom
    /\ ret = no_update

\* C2: after an invocation with a style whose width or minWidth is exactly
\* "60px" (either alone suffices), every nav-text element has display "none".
C2_CollapseHidesNavTexts ==
    (called /\ CollapsedStyle(sidebar_style)) => AllNavTexts(dom, "none")

\* Collapse by minWidth alone (width "240px") has hidden two nav labels that
\* held different display values before.
C2_Witness ==
    /\ called
    /\ sidebar_style = [kind |-> "object", width |-> Str("240px"), minWidth |-> Str("60px")]
    /\ Cardinality(NavTextIndices(dom)) = 2
    /\ \E i, j \in NavTextIndices(prevDom) :
          prevDom[i].display = "" /\ prevDom[j].display = "block"
    /\ AllNavTexts(dom, "none")

\* C3: after an invocation with a style object in which neither width nor
\* minWidth is exactly the string "60px", every nav-text element has display
\* "" (the empty string).
C3_ExpandRestoresDefault ==
    (called /\ ExpandedStyle(sidebar_style)) => AllNavTexts(dom, "")

\* A near-miss style (width the number 60, minWidth the string "60") has
\* reset nav labels that were "none" to "".
C3_Witness ==
    /\ called
    /\ sidebar_style = [kind |-> "object", width |-> Num(60), minWidth |-> Str("60")]
    /\ NavTextIndices(dom) # {}
    /\ \A i \in NavTextIndices(prevDom) : prevDom[i].display = "none"
    /\ AllNavTexts(dom, "")

C5_AlwaysNoUpdate == called => ret = no_update

\* A collapsed invocation on a document with a nav label and a submenu has
\* returned the sentinel.
C5_Witness ==
    /\ called
    /\ CollapsedStyle(sidebar_style)
    /\ NavTextIndices(dom) # {}
    /\ SubmenuIndices(dom) # {}
    /\ dom # prevDom
    /\ ret = no_update

\* C6: invoking the callback again with the same input leaves the document
\* exactly as the first invocation left it.
C6_Idempotent ==
    called => toggle_nav_text(dom, sidebar_style).dom = dom

\* A collapsed invocation has changed a nav label and the submenu (so the
\* first call was not a no-op) and a repeat changes nothing.
C6_Witness ==
    /\ called
    /\ CollapsedStyle(sidebar_style)
    /\ \E i \in NavTextIndices(dom) : prevDom[i].display # dom[i].display
    /\ \E i \in SubmenuIndices(dom) : prevDom[i].display # dom[i].display
    /\ toggle_nav_text(dom, sidebar_style).dom = dom

\* C7: no invocation ends in an error; with zero submenu elements a
\* collapsed invocation changes nav-text elements only.
C7_NeverThrows ==
    /\ ~threw
    /\ (called /\ CollapsedStyle(sidebar_style) /\ SubmenuIndices(prevDom) = {}) =>
          /\ Len(dom) = Len(prevDom)
          /\ \A i \in 1..Len(dom) :
                i \notin NavTextIndices(prevDom) => dom[i] = prevDom[i]

\* A collapsed invocation has completed on a document with no submenu: the
\* nav label changed, the other element did not.
C7_Witness ==
    /\ called
    /\ ~threw
    /\ CollapsedStyle(sidebar_style)
    /\ SubmenuIndices(prevDom) = {}
    /\ \E i \in NavTextIndices(dom) : prevDom[i].display = "block" /\ dom[i].display = "none"
    /\ \E i \in 1..Len(dom) : i \notin NavTextIndices(dom) /\ dom[i].display = "block"

\* A collapsed invocation has completed on the empty document.
C7_EmptyDocumentReached ==
    called /\ ~threw /\ CollapsedStyle(sidebar_style) /\ Len(dom) = 0

\* C8: an invocation writes only the display of nav-text elements and of the
\* first submenu element: the elements stay the same elements, and every
\* other element, a second submenu included, keeps its display.
C8_FrameOfWrites ==
    called =>
        /\ SameElements(dom, prevDom)
        /\ \A i \in 1..Len(prevDom) :
              (i \notin NavTextIndices(prevDom) /\ i # FirstSubmenu(prevDom))
                  => dom[i].display = prevDom[i].display

\* A collapsed invocation on a document with two submenu elements has hidden
\* the first and left the second visible.
C8_Witness ==
    /\ called
    /\ CollapsedStyle(sidebar_style)
    /\ Cardinality(SubmenuIndices(dom)) = 2
    /\ \E i, j \in SubmenuIndices(dom) :
          /\ i < j
          /\ prevDom[i].display = "block" /\ dom[i].display = "none"
          /\ prevDom[j].display = "block" /\ dom[j].display = "block"

C10_LastStyleDecides ==
    lastStyle # NoStyle =>
        AllNavTexts(dom, IF CollapsedStyle(lastStyle) THEN "none" ELSE "")

\* After a collapsed invocation (which followed an expanded start, the
\* labels having been something else) an absent-style invocation ran, and
\* the labels still show the collapsed result.
C10_Witness ==
    /\ called
    /\ AbsentStyle(sidebar_style)
    /\ CollapsedStyle(lastStyle)
    /\ Cardinality(NavTextIndices(dom)) = 2
    /\ \E i \in NavTextIndices(dom) : initialDom[i].display = "block"
    /\ AllNavTexts(dom, "none")

====
